---- MODULE Spec2Model ----
(***************************************************************************)
(* EXFOR normalisation (scripts/exfor_x4i3_common.py) and the build driver *)
(* (scripts/build-exfor-from-x4i3.py) of nds-mcp.                          *)
(*                                                                         *)
(* Python values are tagged records: None is [t |-> "None"], a str is      *)
(* [t |-> "str", s |-> <<characters>>], a finite number is                 *)
(* [t |-> "num", m, e, k] and stands for  m * 10^e * 8.617333262^k.        *)
(* A definite string (after `x or ''`, str(), upper(), strip()) is the     *)
(* sequence of its characters.                                             *)
(***************************************************************************)
EXTENDS Integers, Sequences, FiniteSets, TLC

VARIABLES
    \* ---- parse_target applied to one input
    pt_target, pt_result,
    \* ---- extract_points applied to one (dataset, quantity, max_points)
    ep_dataset, ep_quantity, ep_max_points, ep_columns, ep_points,
    \* ---- which function is being applied: "none", "parse", "extract", and
    \*      whether it has returned
    fn_pc,
    \* ---- the build driver (main): the index table, files on disk, control
    \*      point, arguments
    theworks, fs, pc, limit, max_points_per_dataset, total_candidates,
    \* rows the query returns, rows consumed so far, and main's locals
    index_rows, row_index, current_entry, entry_rows, written_entries, stats,
    \* the output connection's view of the temporary store (committed or not)
    db,
    \* ---- history of the current run (not program state)
    runs, last_exit, dest0, tmp0, flushes, loads, outcomes, reached, attempts, last_commit

fn_vars ==
    <<pt_target, pt_result, ep_dataset, ep_quantity, ep_max_points, ep_columns, ep_points, fn_pc>>
main_vars == <<theworks, fs, pc, limit, max_points_per_dataset, total_candidates, index_rows, row_index,
               current_entry, entry_rows, written_entries, stats, db>>
hist_vars == <<runs, last_exit, dest0, tmp0, flushes, loads, outcomes, reached, attempts, last_commit>>
vars == <<fn_vars, main_vars, hist_vars>>

-----------------------------------------------------------------------------
(* Python values *)

None == [t |-> "None"]
Str(s) == [t |-> "str", s |-> s]
Num(m, e, k) == [t |-> "num", m |-> m, e |-> e, k |-> k]
PyInt(n) == Num(n, 0, 0)
NaN == [t |-> "nan"]
Inf == [t |-> "inf"]

UpperLetters == <<"A","B","C","D","E","F","G","H","I","J","K","L","M",
                  "N","O","P","Q","R","S","T","U","V","W","X","Y","Z">>
LowerLetters == <<"a","b","c","d","e","f","g","h","i","j","k","l","m",
                  "n","o","p","q","r","s","t","u","v","w","x","y","z">>
Digits == <<"0","1","2","3","4","5","6","7","8","9">>
Whitespace == {" ", "\n", "\t", "\r"}

Range(f) == {f[i] : i \in DOMAIN f}
UpperSet == Range(UpperLetters)
LowerSet == Range(LowerLetters)
DigitSet == Range(Digits)
IsDigit(c) == c \in DigitSet
DigitValue(c) == (CHOOSE i \in 1..10 : Digits[i] = c) - 1

\* str.upper(), one character
UpperChar(c) ==
    IF c \in LowerSet
    THEN UpperLetters[CHOOSE i \in 1..26 : LowerLetters[i] = c]
    ELSE c
\* str.upper()
Upper(s) == [i \in 1..Len(s) |-> UpperChar(s[i])]

\* str.strip()
RECURSIVE LStrip(_)
LStrip(s) == IF s # <<>> /\ Head(s) \in Whitespace THEN LStrip(Tail(s)) ELSE s
RECURSIVE RStrip(_)
RStrip(s) ==
    IF s # <<>> /\ s[Len(s)] \in Whitespace THEN RStrip(SubSeq(s, 1, Len(s) - 1)) ELSE s
Strip(s) == RStrip(LStrip(s))

\* int() of a string of decimal digits
RECURSIVE IntOfDigits(_)
IntOfDigits(ds) ==
    IF ds = <<>> THEN 0
    ELSE 10 * IntOfDigits(SubSeq(ds, 1, Len(ds) - 1)) + DigitValue(ds[Len(ds)])

AllDigits(s) == \A i \in 1..Len(s) : IsDigit(s[i])

\* `x or ''` for x a str or None
OrEmpty(x) == IF x.t = "None" THEN <<>> ELSE x.s

\* seq.index(x): 0-based position of the first occurrence
IndexOf(seq, x) == (CHOOSE i \in 1..Len(seq) : seq[i] = x /\ \A j \in 1..(i - 1) : seq[j] # x) - 1

-----------------------------------------------------------------------------
(* exfor_x4i3_common.py: tables *)

PROJECTILE_MAP ==
    [N |-> "n", P |-> "p", G |-> "g", D |-> "d", A |-> "a", HE3 |-> "h", H |-> "h"]
SUPPORTED_Q == {"SIG", "DA", "DE", "FY", "MACS"}
ELEMENTS ==
    << <<"H">>, <<"H","E">>, <<"L","I">>, <<"B","E">>, <<"B">>, <<"C">>, <<"N">>, <<"O">>,
       <<"F">>, <<"N","E">>, <<"N","A">>, <<"M","G">>, <<"A","L">>, <<"S","I">>, <<"P">>, <<"S">>,
       <<"C","L">>, <<"A","R">>, <<"K">>, <<"C","A">>, <<"S","C">>, <<"T","I">>, <<"V">>, <<"C","R">>,
       <<"M","N">>, <<"F","E">>, <<"C","O">>, <<"N","I">>, <<"C","U">>, <<"Z","N">>, <<"G","A">>, <<"G","E">>,
       <<"A","S">>, <<"S","E">>, <<"B","R">>, <<"K","R">>, <<"R","B">>, <<"S","R">>, <<"Y">>, <<"Z","R">>,
       <<"N","B">>, <<"M","O">>, <<"T","C">>, <<"R","U">>, <<"R","H">>, <<"P","D">>, <<"A","G">>, <<"C","D">>,
       <<"I","N">>, <<"S","N">>, <<"S","B">>, <<"T","E">>, <<"I">>, <<"X","E">>, <<"C","S">>, <<"B","A">>,
       <<"L","A">>, <<"C","E">>, <<"P","R">>, <<"N","D">>, <<"P","M">>, <<"S","M">>, <<"E","U">>, <<"G","D">>,
       <<"T","B">>, <<"D","Y">>, <<"H","O">>, <<"E","R">>, <<"T","M">>, <<"Y","B">>, <<"L","U">>, <<"H","F">>,
       <<"T","A">>, <<"W">>, <<"R","E">>, <<"O","S">>, <<"I","R">>, <<"P","T">>, <<"A","U">>, <<"H","G">>,
       <<"T","L">>, <<"P","B">>, <<"B","I">>, <<"P","O">>, <<"A","T">>, <<"R","N">>, <<"F","R">>, <<"R","A">>,
       <<"A","C">>, <<"T","H">>, <<"P","A">>, <<"U">>, <<"N","P">>, <<"P","U">>, <<"A","M">>, <<"C","M">>,
       <<"B","K">>, <<"C","F">>, <<"E","S">>, <<"F","M">>, <<"M","D">>, <<"N","O">>, <<"L","R">>, <<"R","F">>,
       <<"D","B">>, <<"S","G">>, <<"B","H">>, <<"H","S">>, <<"M","T">>, <<"D","S">>, <<"R","G">>, <<"C","N">>,
       <<"N","H">>, <<"F","L">>, <<"M","C">>, <<"L","V">>, <<"T","S">>, <<"O","G">> >>
\* SYMBOL_TO_Z.get(symbol): 0 stands for None
SYMBOL_TO_Z(symbol) ==
    IF \E i \in 1..Len(ELEMENTS) : ELEMENTS[i] = symbol
    THEN CHOOSE i \in 1..Len(ELEMENTS) : ELEMENTS[i] = symbol
    ELSE 0

-----------------------------------------------------------------------------
(* exfor_x4i3_common.py: parse_target *)

\* `$` matches at the end of the string and just before a newline that is
\* the last character of the string
AtDollar(rest) == rest = <<>> \/ rest = <<"\n">>

\* the length of the longest prefix of s made of characters of the set
RECURSIVE Run(_, _)
Run(s, set) == IF s # <<>> /\ Head(s) \in set THEN 1 + Run(Tail(s), set) ELSE 0

Drop(s, n) == SubSeq(s, n + 1, Len(s))

\* re.match(r'^([A-Z]{1,3})-(\d+)(?:-M(\d*)?)?$', s): the groups, or None.
\* A letter run is followed by "-" and a digit run by "-" or `$`, so each
\* group takes its whole run; meta_state None is told from '' by has_meta.
TargetMatch(s) ==
    LET ls == Run(s, UpperSet)
        after_symbol == Drop(s, ls)
        ld == Run(Drop(after_symbol, 1), DigitSet)
        rest == Drop(after_symbol, 1 + ld)
        lm == Run(Drop(rest, 2), DigitSet)
    IN  IF ~ (ls \in 1..3 /\ after_symbol # <<>> /\ Head(after_symbol) = "-" /\ ld >= 1)
        THEN None
        ELSE IF AtDollar(rest)
        THEN [t |-> "match", symbol |-> SubSeq(s, 1, ls),
              mass |-> SubSeq(after_symbol, 2, 1 + ld), has_meta |-> FALSE,
              meta_state |-> <<>>]
        ELSE IF Len(rest) >= 2 /\ rest[1] = "-" /\ rest[2] = "M" /\ AtDollar(Drop(rest, 2 + lm))
        THEN [t |-> "match", symbol |-> SubSeq(s, 1, ls),
              mass |-> SubSeq(after_symbol, 2, 1 + ld), has_meta |-> TRUE,
              meta_state |-> SubSeq(rest, 3, 2 + lm)]
        ELSE None

parse_target(target) ==
    LET match == TargetMatch(OrEmpty(target))
        z == SYMBOL_TO_Z(match.symbol)
    IN  IF match.t = "None" THEN None
        ELSE IF z = 0 THEN None
        ELSE [t |-> "target", z |-> z, a |-> IntOfDigits(match.mass),
              state |-> IF match.meta_state # <<>> THEN IntOfDigits(match.meta_state)
                        ELSE IF match.has_meta THEN 1 ELSE 0]

-----------------------------------------------------------------------------
(* exfor_x4i3_common.py: to_num and the unit converters *)

\* float(text) for text without surrounding whitespace: the decimal forms
\* [sign]digits[.digits] and the non-finite spellings; anything else raises
\* ValueError, written "ValueError".
FloatOfText(text) ==
    LET signed == text # <<>> /\ text[1] \in {"+", "-"}
        neg == text # <<>> /\ text[1] = "-"
        body == IF signed THEN Tail(text) ELSE text
        dots == {i \in 1..Len(body) : body[i] = "."}
        sign == IF neg THEN -1 ELSE 1
    IN  IF Upper(body) \in {<<"N","A","N">>} THEN NaN
        ELSE IF Upper(body) \in {<<"I","N","F">>, <<"I","N","F","I","N","I","T","Y">>} THEN Inf
        ELSE IF body # <<>> /\ dots = {} /\ AllDigits(body)
             THEN Num(sign * IntOfDigits(body), 0, 0)
        ELSE IF Cardinality(dots) = 1 /\ Len(body) > 1
             THEN LET d == CHOOSE i \in dots : TRUE
                      whole == SubSeq(body, 1, d - 1)
                      frac == SubSeq(body, d + 1, Len(body))
                  IN  IF AllDigits(whole) /\ AllDigits(frac)
                      THEN Num(sign * IntOfDigits(whole \o frac), 0 - Len(frac), 0)
                      ELSE [t |-> "ValueError"]
        ELSE [t |-> "ValueError"]

to_num(value) ==
    IF value.t = "None" THEN None
    ELSE LET number ==
                 IF value.t \in {"num", "nan", "inf"} THEN value
                 ELSE LET text == Strip(value.s)
                      IN  IF text = <<>> \/ text \in {<<"-">>, <<"N","A">>, <<"N","/","A">>}
                          THEN None
                          ELSE FloatOfText(text)
         IN  IF number.t \in {"None", "ValueError", "nan", "inf"} THEN None ELSE number

\* value * 10^p
Scale10(value, p) == Num(value.m, value.e + p, value.k)
\* value * 8.617333262 * 10^p
ScaleBoltzmann(value, p) == Num(value.m, value.e + p, value.k + 1)

energy_to_ev(value, unit_) ==
    IF value.t = "None" THEN None
    ELSE LET unit == Strip(Upper(OrEmpty(unit_)))
         IN  CASE unit = <<"E","V">> -> Scale10(value, 0)
               [] unit = <<"K","E","V">> -> Scale10(value, 3)
               [] unit = <<"M","E","V">> -> Scale10(value, 6)
               [] unit = <<"G","E","V">> -> Scale10(value, 9)
               [] unit = <<"M","I","L","L","I","-","E","V">> -> Scale10(value, -3)
               [] unit = <<"U","E","V">> -> Scale10(value, -6)
               [] unit = <<"N","E","V">> -> Scale10(value, -9)
               [] unit = <<"K">> -> ScaleBoltzmann(value, -5)
               [] OTHER -> value

kt_to_kev(value, unit_) ==
    IF value.t = "None" THEN None
    ELSE LET unit == Strip(Upper(OrEmpty(unit_)))
         IN  CASE unit = <<"K","E","V">> -> value
               [] unit = <<"E","V">> -> Scale10(value, -3)
               [] unit = <<"M","E","V">> -> Scale10(value, 3)
               [] unit = <<"G","E","V">> -> Scale10(value, 6)
               [] unit = <<"K">> -> ScaleBoltzmann(value, -8)
               [] OTHER -> value

\* abs(x)
Abs(value) == Num(IF value.m < 0 THEN 0 - value.m ELSE value.m, value.e, value.k)
RECURSIVE Pow10(_)
Pow10(n) == IF n <= 0 THEN 1 ELSE 10 * Pow10(n - 1)
\* (abs(plus) + abs(minus)) / 2.0: the sum at the smaller exponent, times 5/10
MeanAbs(plus, minus) ==
    LET e == IF plus.e < minus.e THEN plus.e ELSE minus.e
        sum == Abs(plus).m * Pow10(plus.e - e) + Abs(minus).m * Pow10(minus.e - e)
    IN  Num(sum * 5, e - 1, 0)

-----------------------------------------------------------------------------
(* exfor_x4i3_common.py: find_index and extract_points *)

\* a column index that is None
NoIndex == -1

Min(S) == CHOOSE x \in S : \A y \in S : x <= y

find_index(labels, candidates) ==
    LET hits == {c \in 1..Len(candidates) : candidates[c] \in Range(labels)}
    IN  IF hits = {} THEN NoIndex ELSE IndexOf(labels, candidates[Min(hits)])

L_DATA == <<"D","A","T","A">>
L_EN == <<"E","N">>
L_ENERGY == <<"E","N","E","R","G","Y">>
L_EN_LAB == <<"E","N","-","L","A","B">>
L_EN_CM == <<"E","N","-","C","M">>
L_EN_RSL == <<"E","N","-","R","S","L">>
L_E == <<"E">>
L_KT == <<"K","T">>
L_KT_K == <<"K","T","-","K">>
L_K_T == <<"K","-","T">>
L_DATA_ERR == <<"D","A","T","A","-","E","R","R">>
L_D_DATA == <<"D","(","D","A","T","A",")">>
L_ERR == <<"E","R","R">>
L_ERR_T == <<"E","R","R","-","T">>
L_STAT_W_G == <<"S","T","A","T","-","W"," ","G">>
L_PLUS_DATA_ERR == <<"+">> \o L_DATA_ERR
L_MINUS_DATA_ERR == <<"-">> \o L_DATA_ERR

\* `sub in s`
Contains(s, sub) ==
    \E i \in 1..(Len(s) - Len(sub) + 1) : SubSeq(s, i, i + Len(sub) - 1) = sub
\* s.startswith(prefix)
StartsWith(s, prefix) ==
    Len(s) >= Len(prefix) /\ SubSeq(s, 1, Len(prefix)) = prefix

\* str(item).upper() if item is not None else '', over a label or unit list
UpperAll(items) ==
    [i \in 1..Len(items) |-> IF items[i].t = "None" THEN <<>> ELSE Upper(items[i].s)]

\* the labels the value-column scan passes over besides the error columns
energy_labels == {L_EN, L_ENERGY, L_EN_LAB, L_EN_CM, L_EN_RSL, L_KT, L_KT_K}

\* lines 88-95: the column of the measured value, NoIndex if none
ValueColumn(labels) ==
    LET data_index == find_index(labels, <<L_DATA>>)
        free == {i \in 1..Len(labels) :
                    ~ (\/ Contains(labels[i], L_ERR)
                       \/ StartsWith(labels[i], <<"D","(">>)
                       \/ labels[i] \in energy_labels)}
    IN  IF data_index # NoIndex THEN data_index
        ELSE IF free = {} THEN NoIndex
        ELSE Min(free) - 1

\* seq[:n] without the cut
PrefixWhole(seq, n) == seq
\* seq[:n]
Prefix(seq, n) ==
    IF n >= 0 THEN SubSeq(seq, 1, IF n < Len(seq) THEN n ELSE Len(seq))
    ELSE SubSeq(seq, 1, Len(seq) + n)

\* units[i] if i < len(units) else ''
UnitAt(units, i) == IF i < Len(units) THEN Str(units[i + 1]) ELSE Str(<<>>)

\* line 113 never taken
IsMACSNever(quantity) == FALSE
\* line 113: the quantity whose points carry a temperature instead of an energy
IsMACS(quantity) == quantity = "MACS"

\* lines 107-127 for one row: <<>> when the row is skipped, else <<point>>
PointOfRow(point_index, row, quantity, units, c) ==
    IF row.t # "list" THEN <<>>
    ELSE
    LET cells == row.cells
        n == Len(cells)
        data_index == c.data_index
        energy_index == c.energy_index
        kt_index == c.kt_index
        err_index == c.err_index
        err_plus == c.err_plus
        err_minus == c.err_minus
        value == IF data_index < n THEN to_num(cells[data_index + 1]) ELSE None
        kt_kev ==
            IF IsMACS(quantity) /\ kt_index # NoIndex /\ kt_index < n
            THEN kt_to_kev(to_num(cells[kt_index + 1]), UnitAt(units, kt_index))
            ELSE None
        energy_ev ==
            IF ~ IsMACS(quantity) /\ energy_index # NoIndex /\ energy_index < n
            THEN energy_to_ev(to_num(cells[energy_index + 1]), UnitAt(units, energy_index))
            ELSE None
        uncertainty ==
            IF err_index # NoIndex /\ err_index < n
            THEN LET err_value == to_num(cells[err_index + 1])
                 IN  IF err_value.t # "None" THEN Abs(err_value) ELSE None
            ELSE IF /\ err_plus # NoIndex /\ err_minus # NoIndex
                    /\ err_plus < n /\ err_minus < n
                 THEN LET plus == to_num(cells[err_plus + 1])
                          minus == to_num(cells[err_minus + 1])
                      IN  IF plus.t # "None" /\ minus.t # "None"
                          THEN MeanAbs(plus, minus) ELSE None
                 ELSE None
    IN  IF value.t = "None" THEN <<>>
        ELSE << [point_index |-> point_index, energy_eV |-> energy_ev,
                 kT_keV |-> kt_kev, value |-> value, uncertainty |-> uncertainty] >>

\* lines 88-103: the columns resolved from the labels
Columns(labels) ==
    [data_index |-> ValueColumn(labels),
     energy_index |-> find_index(labels, <<L_EN, L_ENERGY, L_EN_LAB, L_EN_CM, L_EN_RSL, L_E>>),
     kt_index |-> find_index(labels, <<L_KT, L_KT_K, L_K_T>>),
     err_index |-> find_index(labels, <<L_DATA_ERR, L_D_DATA, L_ERR, L_ERR_T, L_STAT_W_G>>),
     err_plus |-> find_index(labels, <<L_PLUS_DATA_ERR>>),
     err_minus |-> find_index(labels, <<L_MINUS_DATA_ERR>>)]

RECURSIVE Collect(_, _, _, _, _)
Collect(i, rs, quantity, units, c) ==
    IF i > Len(rs) THEN <<>>
    ELSE PointOfRow(i - 1, rs[i], quantity, units, c) \o Collect(i + 1, rs, quantity, units, c)

extract_points(dataset, quantity, max_points) ==
    LET labels == UpperAll(dataset.labels)
        units == UpperAll(dataset.units)
    IN  IF labels = <<>> THEN <<>>
        ELSE IF ValueColumn(labels) = NoIndex THEN <<>>
        ELSE Collect(1, Prefix(dataset.data, max_points), quantity, units, Columns(labels))

-----------------------------------------------------------------------------
(* build-exfor-from-x4i3.py: the world the driver runs in *)
(* Identifiers the code only compares (entry, projectile, quantity,        *)
(* reaction, author) are TLA+ strings; strings it takes apart (target,     *)
(* pointer, subent, labels, units, cell texts) are character sequences.    *)

MaxRows == 3         \* longest index table
MaxLimit == 1        \* largest --limit tried (0 is the full build)
MaxPoints == 2       \* largest --max-points-per-dataset tried
MaxRuns == 2         \* builds started one after the other on the same paths
BatchRows == 2       \* rows between checkpoint commits (20000 in the script)

\* the two paths of a run
output == "exfor.sqlite"
tmp_output_direct == output
tmp_output == "exfor.sqlite.tmp.build"
Paths == {output, tmp_output}

Absent == [t |-> "absent"]
\* the three tables right after the CREATE TABLE statements
EmptyStore == [t |-> "store", meta |-> {}, entries |-> <<>>, points |-> <<>>]
Closed == [t |-> "closed"]

List(cells) == [t |-> "list", cells |-> cells]
Dec(m, e) == Num(m, e, 0)

\* labels EN, DATA, DATA-ERR / units MEV, B, B
DS_SIG ==
    [labels |-> <<Str(L_EN), Str(L_DATA), Str(L_DATA_ERR)>>,
     units |-> <<Str(<<"M","E","V">>), Str(<<"B">>), Str(<<"B">>)>>,
     data |-> << List(<<Dec(10, -1), Dec(25, -1), Dec(1, -1)>>),
                 List(<<Dec(20, -1), Str(<<"3",".","5">>), Str(<<"-">>)>>) >>]
\* a capture-rate table that also carries an energy column; its first row is
\* a comment string, not a list
DS_MACS ==
    [labels |-> <<Str(<<"k","T">>), Str(L_EN), Str(L_DATA), Str(L_PLUS_DATA_ERR),
                  Str(L_MINUS_DATA_ERR)>>,
     units |-> <<Str(<<"K","E","V">>), Str(<<"M","E","V">>), Str(<<"M","B">>)>>,
     data |-> << [t |-> "str"],
                 List(<<PyInt(30), Dec(10, -1), PyInt(5), PyInt(1), PyInt(-2)>>) >>]
\* no column can hold the value
DS_NOVALUE ==
    [labels |-> <<Str(L_EN), Str(L_DATA_ERR)>>,
     units |-> <<Str(<<"E","V">>), Str(<<"B">>)>>,
     data |-> << List(<<PyInt(1), PyInt(2)>>) >>]

\* manager.retrieve(ENTRY=entry).get(entry) and getSimplifiedDataSets: None,
\* an exception, or the datasets in the order of dataset_map.keys()
Retrieve(entry) ==
    CASE entry = "10001" ->
           [t |-> "record",
            datasets |-> << [key |-> <<"10001", <<"1">>, <<" ">>>>, dataset |-> DS_SIG],
                            [key |-> <<"10001", <<"2">>, <<"A">>>>, dataset |-> DS_MACS] >>]
      [] entry = "10002" -> None
      [] entry = "10003" -> [t |-> "raise"]
      [] OTHER ->
           [t |-> "record",
            datasets |-> << [key |-> <<"10004", <<"1">>, <<" ">>>>, dataset |-> DS_NOVALUE],
                            [key |-> <<"10004", <<"2">>, <<" ">>>>, dataset |-> DS_SIG] >>]

Row(entry, subent, pointer, target, projectile, reaction, quantity, author) ==
    [entry |-> entry, subent |-> subent, pointer |-> pointer, target |-> target,
     projectile |-> projectile, reaction |-> reaction, quantity |-> quantity,
     author |-> author]

FE56 == Str(<<"F","E","-","5","6">>)
\* rows of theworks that pass the WHERE clause, in ORDER BY entry, subent, pointer
TheWorks ==
    << Row("10001", <<"1">>, None, FE56, "N", "(N,TOT)", "SIG", "Smith"),
       Row("10001", <<"1">>, Str(<<" ">>), FE56, "P", "(P,G)", "MACS", "Smith"),
       Row("10001", <<"2">>, Str(<<" ","B">>), Str(<<"U","-","2","3","5","-","M">>),
           "HE3", "(HE3,G)", "MACS", "Jones"),
       Row("10001", <<"3">>, Str(<<>>), Str(<<"F","E","5","6">>), "N", "(N,G)", "SIG", "Lee"),
       Row("10001", <<"3">>, Str(<<"A">>), FE56, "N", "(N,G)", "SIG", "Lee"),
       Row("10002", <<"1">>, None, FE56, "N", "(N,G)", "SIG", "Kim"),
       Row("10003", <<"1">>, None, FE56, "N", "(N,G)", "SIG", "Roe"),
       Row("10004", <<"1">>, None, FE56, "G", "(G,N)", "FY", "Doe"),
       Row("10004", <<"2">>, None, Str(<<"H","-","1">>), "D", "(D,G)", "DE", "Doe") >>

\* the index tables tried: the rows of TheWorks at any MaxRows positions or
\* fewer, in their order
RECURSIVE Pick(_, _)
Pick(seq, keep) ==
    IF seq = <<>> THEN <<>>
    ELSE (IF Len(seq) \in keep THEN Pick(SubSeq(seq, 1, Len(seq) - 1), keep) \o <<seq[Len(seq)]>>
          ELSE Pick(SubSeq(seq, 1, Len(seq) - 1), keep))
Tables ==
    {Pick(TheWorks, keep) : keep \in {k \in SUBSET (1..Len(TheWorks)) : Cardinality(k) <= MaxRows}}

\* lines 25-31: the rows the query yields
Query(table, lim) == IF lim > 0 THEN Prefix(table, lim) ELSE table

-----------------------------------------------------------------------------
(* build-exfor-from-x4i3.py: flush_entry *)

NoStats ==
    [missing_entries |-> 0, entry_load_errors |-> 0, skipped_non_nuclide_or_quantity |-> 0,
     skipped_projectile |-> 0, missing_dataset |-> 0, empty_points |-> 0,
     entries_inserted |-> 0, points_inserted |-> 0]
Bump(st, counter, by) == [st EXCEPT ![counter] = @ + by]

\* PROJECTILE_MAP.get(projectile_raw), "" for None
ProjectileOf(projectile_raw) ==
    IF projectile_raw \in DOMAIN PROJECTILE_MAP THEN PROJECTILE_MAP[projectile_raw] ELSE ""

\* line 99: (pointer or ' ').strip() or ' '
NormPointer(pointer) ==
    LET p == IF OrEmpty(pointer) = <<>> THEN <<" ">> ELSE pointer.s
    IN  IF Strip(p) = <<>> THEN <<" ">> ELSE Strip(p)

\* lines 100-103: dataset_map.get(key), else the first dataset of the subentry
FindDataset(datasets, key) ==
    LET exact == {i \in 1..Len(datasets) : datasets[i].key = key}
        same == {i \in 1..Len(datasets) : datasets[i].key[2] = key[2]}
    IN  IF exact # {} THEN <<datasets[Min(exact)].dataset>>
        ELSE IF same # {} THEN <<datasets[Min(same)].dataset>>
        ELSE <<>>

\* line 111
SubentryId(subent, pointer) == IF pointer = <<" ">> THEN subent ELSE subent \o <<":">> \o pointer

\* line 113, without the test
NeverWritten(unique_key, written) == FALSE
\* line 113
AlreadyWritten(unique_key, written) == unique_key \in written

HasKey(store, unique_key) ==
    \E i \in 1..Len(store.entries) :
        <<store.entries[i].entry_id, store.entries[i].subentry_id>> = unique_key

EntryRow(unique_key, target, projectile, row) ==
    [entry_id |-> unique_key[1], subentry_id |-> unique_key[2], target_Z |-> target.z,
     target_A |-> target.a, state |-> target.state, projectile |-> projectile,
     reaction |-> row.reaction, quantity |-> row.quantity, reference |-> row.author,
     year |-> None]
PointRows(unique_key, points) ==
    [i \in 1..Len(points) |->
        [entry_id |-> unique_key[1], subentry_id |-> unique_key[2],
         point_index |-> points[i].point_index, energy_eV |-> points[i].energy_eV,
         kT_keV |-> points[i].kT_keV, value |-> points[i].value,
         uncertainty |-> points[i].uncertainty]]

\* history: a row that got as far as line 112, and whether it was inserted
Reach(unique_key, row, points, wrote) ==
    [key |-> unique_key, row |-> row, points |-> points, wrote |-> wrote]
\* history: what became of a row
Log(S, row, outcome, n) ==
    Append(S.outcomes, [row |-> row, outcome |-> outcome, points |-> n])

\* lines 90-127 for one row.  S holds db, written_entries, stats and the
\* history; S.raised is set when sqlite3.IntegrityError leaves flush_entry.
FlushRow(S, row, datasets, max_points) ==
    LET target == parse_target(row.target)
        projectile == ProjectileOf(row.projectile)
        pointer == NormPointer(row.pointer)
        key == <<row.entry, row.subent, pointer>>
        found == FindDataset(datasets, key)
        points == extract_points(found[1], row.quantity, max_points)
        unique_key == <<row.entry, SubentryId(row.subent, pointer)>>
    IN  IF target.t = "None" \/ row.quantity \notin SUPPORTED_Q
        THEN [S EXCEPT !.stats = Bump(@, "skipped_non_nuclide_or_quantity", 1),
                       !.outcomes = Log(S, row, "skipped_non_nuclide_or_quantity", 0)]
        ELSE IF projectile = ""
        THEN [S EXCEPT !.stats = Bump(@, "skipped_projectile", 1),
                       !.outcomes = Log(S, row, "skipped_projectile", 0)]
        ELSE IF found = <<>>
        THEN [S EXCEPT !.stats = Bump(@, "missing_dataset", 1),
                       !.outcomes = Log(S, row, "missing_dataset", 0)]
        ELSE IF points = <<>>
        THEN [S EXCEPT !.stats = Bump(@, "empty_points", 1),
                       !.outcomes = Log(S, row, "empty_points", 0)]
        ELSE IF AlreadyWritten(unique_key, S.written_entries)
        THEN [S EXCEPT !.outcomes = Log(S, row, "already_written", 0),
                       !.reached = Append(@, Reach(unique_key, row, points, FALSE))]
        ELSE IF HasKey(S.db, unique_key)
        \* UNIQUE constraint failed: exfor_entries.entry_id, exfor_entries.subentry_id
        THEN [S EXCEPT !.raised = TRUE,
                       !.outcomes = Log(S, row, "IntegrityError", 0),
                       !.reached = Append(@, Reach(unique_key, row, points, FALSE)),
                       !.attempts = Append(@, unique_key)]
        ELSE [S EXCEPT !.db.entries = Append(@, EntryRow(unique_key, target, projectile, row)),
                       !.db.points = @ \o PointRows(unique_key, points),
                       !.written_entries = @ \cup {unique_key},
                       !.stats = Bump(Bump(@, "entries_inserted", 1),
                                      "points_inserted", Len(points)),
                       !.outcomes = Log(S, row, "inserted", Len(points)),
                       !.reached = Append(@, Reach(unique_key, row, points, TRUE)),
                       !.attempts = Append(@, unique_key)]

RECURSIVE FlushRows(_, _, _, _)
FlushRows(S, rs, datasets, max_points) ==
    IF rs = <<>> \/ S.raised THEN S
    ELSE FlushRows(FlushRow(S, Head(rs), datasets, max_points), Tail(rs), datasets, max_points)

RECURSIVE LogAll(_, _, _)
LogAll(log, rs, outcome) ==
    IF rs = <<>> THEN log
    ELSE LogAll(Append(log, [row |-> Head(rs), outcome |-> outcome, points |-> 0]),
                Tail(rs), outcome)

\* lines 74-127; entry is current_entry, None before the first row
flush_entry(S, entry, rs, max_points) ==
    IF rs = <<>> THEN S
    ELSE LET entry_obj == Retrieve(entry.s)
             T == [S EXCEPT !.loads = Append(@, entry.s),
                            !.flushes = Append(@, [entry |-> entry.s, rows |-> rs])]
         IN  CASE entry_obj.t = "None" ->
                    [T EXCEPT !.stats = Bump(@, "missing_entries", 1),
                              !.outcomes = LogAll(@, rs, "missing_entries")]
               [] entry_obj.t = "raise" ->
                    [T EXCEPT !.stats = Bump(@, "entry_load_errors", 1),
                              !.outcomes = LogAll(@, rs, "entry_load_errors")]
               [] OTHER -> FlushRows(T, rs, entry_obj.datasets, max_points)

-----------------------------------------------------------------------------
(* build-exfor-from-x4i3.py: main *)

\* lines 130-137: what one iteration does with the row it reads
LoopBodyDropsRow(current, group, row) ==
    LET cur == IF current.t = "None" THEN Str(row.entry) ELSE current
    IN  IF row.entry # cur.s
        THEN [flush |-> TRUE, entry |-> cur, rows |-> group,
              current_entry |-> Str(row.entry), entry_rows |-> <<>>]
        ELSE [flush |-> FALSE, entry |-> cur, rows |-> <<>>,
              current_entry |-> cur, entry_rows |-> Append(group, row)]
LoopBody(current, group, row) ==
    LET cur == IF current.t = "None" THEN Str(row.entry) ELSE current
    IN  IF row.entry # cur.s
        THEN [flush |-> TRUE, entry |-> cur, rows |-> group,
              current_entry |-> Str(row.entry), entry_rows |-> <<row>>]
        ELSE [flush |-> FALSE, entry |-> cur, rows |-> <<>>,
              current_entry |-> cur, entry_rows |-> Append(group, row)]

\* INSERT OR REPLACE INTO exfor_meta
Upsert(meta, k, v) == {kv \in meta : kv[1] # k} \cup {<<k, v>>}

\* os.replace(src, dst)
Replace(files, src, dst) ==
    IF src = dst THEN files
    ELSE [p \in DOMAIN files |-> IF p = dst THEN files[src]
                                 ELSE IF p = src THEN Absent ELSE files[p]]

\* the state flush_entry works on
Working ==
    [db |-> db, written_entries |-> written_entries, stats |-> stats, raised |-> FALSE,
     flushes |-> flushes, loads |-> loads, outcomes |-> outcomes, reached |-> reached,
     attempts |-> attempts]

\* the process is gone: its locals and its open transaction with it
Exit(how) ==
    /\ pc' = "idle"
    /\ last_exit' = how
    /\ db' = Closed
    /\ index_rows' = <<>>
    /\ row_index' = 0
    /\ current_entry' = None
    /\ entry_rows' = <<>>
    /\ written_entries' = {}
    /\ limit' = 0
    /\ max_points_per_dataset' = 0
    /\ total_candidates' = 0

\* lines 14-72: arguments, the query, connect to the temporary path, schema
StartBuild(lim, mp) ==
    /\ fn_pc = "none"
    /\ pc = "idle"
    /\ runs < MaxRuns
    /\ runs' = runs + 1
    /\ limit' = lim
    /\ max_points_per_dataset' = mp
    /\ total_candidates' = Len(theworks)
    /\ index_rows' = Query(theworks, lim)
    /\ fs' = IF fs[tmp_output] = Absent THEN [fs EXCEPT ![tmp_output] = EmptyStore] ELSE fs
    /\ db' = fs'[tmp_output]
    /\ written_entries' = {}
    /\ stats' = NoStats
    /\ current_entry' = None
    /\ entry_rows' = <<>>
    /\ row_index' = 0
    /\ pc' = "loop"
    /\ dest0' = fs[output]
    /\ tmp0' = fs[tmp_output]
    /\ last_exit' = "running"
    /\ flushes' = <<>>
    /\ loads' = <<>>
    /\ outcomes' = <<>>
    /\ reached' = <<>>
    /\ attempts' = <<>>
    /\ last_commit' = None
    /\ UNCHANGED <<fn_vars, theworks>>

\* lines 129-140: one iteration of the loop over the query's rows
ProcessRow ==
    /\ pc = "loop"
    /\ row_index < Len(index_rows)
    /\ \E body \in {LoopBody(current_entry, entry_rows, index_rows[row_index + 1])} :
       \E S \in {IF body.flush
                  THEN flush_entry(Working, body.entry, body.rows, max_points_per_dataset)
                  ELSE Working} :
       LET commit == (row_index + 1) % BatchRows = 0
       IN  /\ stats' = S.stats
           /\ flushes' = S.flushes
           /\ loads' = S.loads
           /\ outcomes' = S.outcomes
           /\ reached' = S.reached
           /\ attempts' = S.attempts
           /\ IF S.raised
              THEN /\ Exit("error")
                   /\ UNCHANGED <<fs, last_commit>>
              ELSE /\ db' = S.db
                   /\ written_entries' = S.written_entries
                   /\ current_entry' = body.current_entry
                   /\ entry_rows' = body.entry_rows
                   /\ row_index' = row_index + 1
                   /\ fs' = IF commit THEN [fs EXCEPT ![tmp_output] = S.db] ELSE fs
                   /\ last_commit' = IF commit THEN [store |-> S.db, stats |-> S.stats]
                                     ELSE last_commit
                   /\ UNCHANGED <<pc, last_exit, index_rows, limit, max_points_per_dataset,
                                  total_candidates>>
    /\ UNCHANGED <<fn_vars, theworks, runs, dest0, tmp0>>

\* line 141: the flush after the loop
FinalFlush ==
    /\ pc = "loop"
    /\ row_index = Len(index_rows)
    /\ \E S \in {flush_entry(Working, current_entry, entry_rows, max_points_per_dataset)} :
           /\ stats' = S.stats
           /\ flushes' = S.flushes
           /\ loads' = S.loads
           /\ outcomes' = S.outcomes
           /\ reached' = S.reached
           /\ attempts' = S.attempts
           /\ IF S.raised
              THEN Exit("error")
              ELSE /\ db' = S.db
                   /\ written_entries' = S.written_entries
                   /\ pc' = "flushed"
                   /\ UNCHANGED <<last_exit, index_rows, limit, max_points_per_dataset,
                                  total_candidates, current_entry, entry_rows, row_index>>
    /\ UNCHANGED <<fn_vars, theworks, fs, runs, dest0, tmp0, last_commit>>

\* lines 143-147: the four meta rows and the last commit
CommitMeta ==
    /\ pc = "flushed"
    /\ LET candidates == IF limit = 0 THEN total_candidates
                         ELSE IF limit < total_candidates THEN limit ELSE total_candidates
           meta == Upsert(Upsert(Upsert(Upsert(db.meta, "schema_version", 1),
                                        "built_at", runs), "source", limit),
                          "candidate_rows", candidates)
       IN  /\ db' = [db EXCEPT !.meta = meta]
           /\ fs' = [fs EXCEPT ![tmp_output] = db']
           /\ last_commit' = [store |-> db', stats |-> stats]
    /\ pc' = "committed"
    /\ UNCHANGED <<fn_vars, theworks, limit, max_points_per_dataset, total_candidates,
                   index_rows, row_index, current_entry, entry_rows, written_entries, stats, runs,
                   last_exit, dest0, tmp0, flushes, loads, outcomes, reached, attempts>>

\* lines 148-149: close both connections
CloseConnections ==
    /\ pc = "committed"
    /\ pc' = "closed"
    /\ db' = Closed
    /\ UNCHANGED <<fn_vars, theworks, fs, limit, max_points_per_dataset, total_candidates,
                   index_rows, row_index, current_entry, entry_rows, written_entries, stats, hist_vars>>

\* lines 150-151: rename the temporary file over the destination, and exit
Publish ==
    /\ pc = "closed"
    /\ fs' = Replace(fs, tmp_output, output)
    /\ Exit("ok")
    /\ UNCHANGED <<fn_vars, theworks, stats, runs, dest0, tmp0, flushes, loads, outcomes, reached, attempts,
                   last_commit>>

\* the operator kills the process between two steps
Interrupt ==
    /\ pc \in {"loop", "flushed", "committed", "closed"}
    /\ Exit("killed")
    /\ UNCHANGED <<fn_vars, theworks, fs, stats, runs, dest0, tmp0, flushes, loads, outcomes, reached,
                   attempts, last_commit>>

InitBuild ==
    /\ pt_target = None /\ pt_result = None
    /\ ep_dataset = None /\ ep_quantity = "" /\ ep_max_points = 0
    /\ ep_columns = None /\ ep_points = <<>>
    /\ fn_pc = "none"
    /\ theworks \in Tables
    /\ fs = [p \in Paths |-> Absent]
    /\ pc = "idle"
    /\ limit = 0 /\ max_points_per_dataset = 0 /\ total_candidates = 0
    /\ index_rows = <<>> /\ row_index = 0 /\ current_entry = None /\ entry_rows = <<>>
    /\ written_entries = {} /\ stats = NoStats
    /\ db = Closed
    /\ runs = 0 /\ last_exit = "none" /\ dest0 = Absent /\ tmp0 = Absent
    /\ flushes = <<>> /\ loads = <<>> /\ outcomes = <<>> /\ reached = <<>> /\ attempts = <<>>
    /\ last_commit = None

\* no build runs while a single function is applied
NoBuild ==
    /\ theworks = <<>>
    /\ fs = [p \in Paths |-> Absent]
    /\ pc = "idle"
    /\ limit = 0 /\ max_points_per_dataset = 0 /\ total_candidates = 0
    /\ index_rows = <<>> /\ row_index = 0 /\ current_entry = None /\ entry_rows = <<>>
    /\ written_entries = {} /\ stats = NoStats
    /\ db = Closed
    /\ runs = 0 /\ last_exit = "none" /\ dest0 = Absent /\ tmp0 = Absent
    /\ flushes = <<>> /\ loads = <<>> /\ outcomes = <<>> /\ reached = <<>> /\ attempts = <<>>
    /\ last_commit = None

-----------------------------------------------------------------------------
(* parse_target applied to every short string over a small alphabet *)

MaxTargetLen == 6
TargetAlphabet == {"H", "E", "M", "-", "2", "\n"}
Strings(alphabet, n) == UNION {[1..k -> alphabet] : k \in 0..n}
TargetInputs == {None} \cup {Str(s) : s \in Strings(TargetAlphabet, MaxTargetLen)}

InitParse ==
    /\ pt_target \in TargetInputs /\ pt_result = [t |-> "pending"]
    /\ ep_dataset = None /\ ep_quantity = "" /\ ep_max_points = 0
    /\ ep_columns = None /\ ep_points = <<>>
    /\ fn_pc = "parse"
    /\ NoBuild

CallParseTarget ==
    /\ fn_pc = "parse"
    /\ pt_result' = parse_target(pt_target)
    /\ fn_pc' = "parsed"
    /\ UNCHANGED <<pt_target, ep_dataset, ep_quantity, ep_max_points, ep_columns, ep_points,
                   main_vars, hist_vars>>

SpecParse == InitParse /\ [][CallParseTarget]_vars

-----------------------------------------------------------------------------
(* extract_points applied to small datasets *)

MaxLabels == 3       \* most columns of a dataset drawn label by label
MaxDataRows == 3     \* most rows of a dataset drawn row by row
MaxCut == 2          \* largest max_points tried

LabelChoices ==
    {None, Str(L_DATA), Str(L_EN), Str(L_E), Str(<<"k","t">>), Str(L_K_T), Str(L_DATA_ERR),
     Str(L_D_DATA), Str(<<"Y">>)}
SomeUnits == <<Str(<<"M","E","V">>), None, Str(<<" ","k">>)>>
\* every row has a number in every column drawn
FullData ==
    << List([i \in 1..MaxLabels |-> PyInt(i)]), List([i \in 1..MaxLabels |-> PyInt(0 - i)]) >>
RowChoices ==
    {[t |-> "str"], List(<<>>), List(<<PyInt(1)>>), List(<<PyInt(1), None>>),
     List(<<None, Str(<<"-">>)>>), List(<<Str(<<"2">>), PyInt(7), PyInt(3)>>),
     List(<<PyInt(4), Str(<<" ","2",".","5">>), NaN>>)}
SomeLabels ==
    {<<Str(L_EN), Str(L_DATA), Str(L_ERR_T)>>, <<Str(L_KT), Str(<<"S","I","G">>)>>, <<>>}

Datasets ==
    {[labels |-> ls, units |-> SomeUnits, data |-> FullData] :
        ls \in UNION {[1..k -> LabelChoices] : k \in 0..MaxLabels}}
    \cup
    {[labels |-> ls, units |-> SomeUnits, data |-> rs] :
        ls \in SomeLabels, rs \in UNION {[1..k -> RowChoices] : k \in 0..MaxDataRows}}

InitExtract ==
    /\ pt_target = None /\ pt_result = None
    /\ ep_dataset \in Datasets /\ ep_quantity \in {"SIG", "MACS"}
    /\ ep_max_points \in -1..MaxCut
    /\ ep_columns = None /\ ep_points = <<>>
    /\ fn_pc = "extract"
    /\ NoBuild

CallExtractPoints ==
    /\ fn_pc = "extract"
    /\ ep_columns' = Columns(UpperAll(ep_dataset.labels))
    /\ ep_points' = extract_points(ep_dataset, ep_quantity, ep_max_points)
    /\ fn_pc' = "extracted"
    /\ UNCHANGED <<pt_target, pt_result, ep_dataset, ep_quantity, ep_max_points,
                   main_vars, hist_vars>>

SpecExtract == InitExtract /\ [][CallExtractPoints]_vars

-----------------------------------------------------------------------------
(* the build *)

Init == InitBuild

Next ==
    \/ \E lim \in 0..MaxLimit, mp \in 1..MaxPoints : StartBuild(lim, mp)
    \/ ProcessRow
    \/ FinalFlush
    \/ CommitMeta
    \/ CloseConnections
    \/ Publish
    \/ Interrupt

Spec == Init /\ [][Next]_vars

\* extract_points applied, or a build run
SpecPoints ==
    (InitExtract \/ InitBuild) /\ [][CallExtractPoints \/ Next]_vars

-----------------------------------------------------------------------------
(* Properties of parse_target *)

\* the ways s reads as SYMBOL-MASS (m = -1) or SYMBOL-MASS-M<m digits>, to
\* its last character
TargetForms(s) ==
    {g \in [ls : 1..3, ld : 1..Len(s), m : -1..Len(s)] :
        /\ Len(s) = g.ls + 1 + g.ld + (IF g.m = -1 THEN 0 ELSE 2 + g.m)
        /\ \A i \in 1..g.ls : s[i] \in UpperSet
        /\ s[g.ls + 1] = "-"
        /\ \A i \in (g.ls + 2)..(g.ls + 1 + g.ld) : s[i] \in DigitSet
        /\ g.m >= 0 => /\ s[g.ls + g.ld + 2] = "-"
                       /\ s[g.ls + g.ld + 3] = "M"
                       /\ \A i \in (g.ls + g.ld + 4)..Len(s) : s[i] \in DigitSet}

\* C5: parse_target returns failure for every input that is not of the form
\* SYMBOL-MASS or SYMBOL-MASS-M<digits*> and for every symbol outside the
\* table; for every other input it returns (Z, A, state) with Z the 1-based
\* position of the symbol, A the mass number, and state 0 without suffix, 1
\* for -M without digits, the value of the digits otherwise.
C5_ParseTargetContract ==
    fn_pc = "parsed" =>
        LET s == OrEmpty(pt_target)
            forms == TargetForms(s)
            g == CHOOSE f \in forms : TRUE
            symbol == SubSeq(s, 1, g.ls)
            known == {i \in 1..Len(ELEMENTS) : ELEMENTS[i] = symbol}
        IN  IF forms = {} THEN pt_result = None
            ELSE IF known = {} THEN pt_result = None
            ELSE /\ pt_result.t = "target"
                 /\ pt_result.z \in known /\ pt_result.z \in 1..118
                 /\ pt_result.a = IntOfDigits(SubSeq(s, g.ls + 2, g.ls + 1 + g.ld))
                 /\ pt_result.state =
                        IF g.m = -1 THEN 0
                        ELSE IF g.m = 0 THEN 1
                        ELSE IntOfDigits(SubSeq(s, g.ls + g.ld + 4, Len(s)))

-----------------------------------------------------------------------------
(* Properties of extract_points *)

ep_labels == UpperAll(ep_dataset.labels)

\* the labels C6 says the value-column scan passes over
C6_Excluded(label) ==
    \/ Contains(label, L_ERR)
    \/ StartsWith(label, <<"D","(">>)
    \/ label \in {L_EN, L_ENERGY, L_EN_LAB, L_EN_CM, L_EN_RSL, L_E, L_KT, L_KT_K, L_K_T}

\* C6: the value column is the first column labelled DATA; without one it is
\* the first column whose label has no ERR, does not start with D( and is no
\* energy label (EN, ENERGY, EN-LAB, EN-CM, EN-RSL, E) or temperature label
\* (KT, KT-K, K-T), so it is neither the energy nor the temperature column;
\* if no column qualifies, no point is returned.
C6_ValueColumnSelection ==
    (fn_pc = "extracted" /\ ep_labels # <<>>) =>
        LET data_at == {i \in 1..Len(ep_labels) : ep_labels[i] = L_DATA}
            free == {i \in 1..Len(ep_labels) : ~ C6_Excluded(ep_labels[i])}
        IN  IF data_at # {} THEN ep_columns.data_index = Min(data_at) - 1
            ELSE IF free # {}
                 THEN /\ ep_columns.data_index = Min(free) - 1
                      /\ ep_columns.data_index # ep_columns.energy_index
                      /\ ep_columns.data_index # ep_columns.kt_index
            ELSE ep_columns.data_index = NoIndex /\ ep_points = <<>>

\* row i (0-based) of the dataset gave no point
NoPointOf(i) == \A k \in 1..Len(ep_points) : ep_points[k].point_index # i
\* the row is not a list, the value column is out of range for it (or there
\* is none), or its value coerces to null
Unusable(row) ==
    \/ row.t # "list"
    \/ ep_columns.data_index = NoIndex
    \/ ep_columns.data_index >= Len(row.cells)
    \/ to_num(row.cells[ep_columns.data_index + 1]) = None

\* at most max_points points; each point_index is the position of the row
\* the point was read from, below max_points, and they increase strictly
C7_Indexes ==
    /\ Len(ep_points) <= ep_max_points
    /\ \A k \in 1..Len(ep_points) :
          LET i == ep_points[k].point_index
          IN  /\ 0 <= i /\ i < ep_max_points /\ i < Len(ep_dataset.data)
              /\ ~ Unusable(ep_dataset.data[i + 1])
              /\ ep_points[k].value =
                     to_num(ep_dataset.data[i + 1].cells[ep_columns.data_index + 1])
              /\ k > 1 => ep_points[k - 1].point_index < i

\* C7 (as stated): for max_points >= 0 the list has at most max_points
\* points, every point_index is the row's position, in 0..max_points-1 and
\* strictly increasing; a row contributes no point exactly when it is not a
\* list/tuple, the value column is out of range for it, or its value
\* coerces to null.
C7_AsStated ==
    (fn_pc = "extracted" /\ ep_max_points >= 0) =>
        /\ C7_Indexes
        /\ \A i \in 0..(Len(ep_dataset.data) - 1) :
              NoPointOf(i) <=> Unusable(ep_dataset.data[i + 1])

\* C7 (amended): as stated, except that the three conditions decide only the
\* rows at positions below max_points; a row at position max_points or
\* later contributes no point whatever it holds.
C7_BoundedPoints ==
    (fn_pc = "extracted" /\ ep_max_points >= 0) =>
        /\ C7_Indexes
        /\ \A i \in 0..(Len(ep_dataset.data) - 1) :
              IF i < ep_max_points
              THEN NoPointOf(i) <=> Unusable(ep_dataset.data[i + 1])
              ELSE NoPointOf(i)

\* a usable row lies beyond the cut, and a row before it was skipped
C7_Witness ==
    /\ fn_pc = "extracted"
    /\ ep_max_points = 2
    /\ Len(ep_dataset.data) = 3
    /\ ~ Unusable(ep_dataset.data[3])
    /\ Len(ep_points) = 1
    /\ ep_points[1].point_index = 1

Stores == {st \in {db} \cup Range(fs) : st.t = "store"}
KeyOf(r) == <<r.entry_id, r.subentry_id>>
PointsOf(st, key) == SelectSeq(st.points, LAMBDA r : KeyOf(r) = key)
EntriesOf(st, key) == SelectSeq(st.entries, LAMBDA r : KeyOf(r) = key)

\* C8: every point extracted for MACS has a null energy and every point
\* extracted for another quantity a null temperature, whatever the columns;
\* no row of exfor_points has both energy_eV and kT_keV.
C8_EnergyOrTemperature ==
    /\ fn_pc = "extracted" =>
          \A k \in 1..Len(ep_points) :
              IF ep_quantity = "MACS" THEN ep_points[k].energy_eV = None
              ELSE ep_points[k].kT_keV = None
    /\ \A st \in Stores : \A k \in 1..Len(st.points) :
          /\ ~ (st.points[k].energy_eV # None /\ st.points[k].kT_keV # None)
          /\ \A e \in Range(EntriesOf(st, KeyOf(st.points[k]))) :
                IF e.quantity = "MACS" THEN st.points[k].energy_eV = None
                ELSE st.points[k].kT_keV = None

\* the store holds a MACS point with a temperature, read from a dataset
\* that has an energy column too, next to a point with an energy
C8_Witness ==
    /\ db.t = "store"
    /\ \E k \in 1..Len(db.points) :
          db.points[k].kT_keV # None /\ db.points[k].energy_eV = None
    /\ \E k \in 1..Len(db.points) :
          db.points[k].kT_keV = None /\ db.points[k].energy_eV # None

-----------------------------------------------------------------------------
(* Properties of the build *)

\* C1: before the rename the destination holds what it held when the run
\* started (the old store, or nothing), also when the run is interrupted or
\* fails; the destination changes only by the rename that follows the last
\* commit and the close, and takes the committed temporary store.
C1_AtomicPublish ==
    /\ [](last_exit \in {"running", "killed", "error"} => fs[output] = dest0)
    /\ [][fs'[output] # fs[output] =>
            /\ pc = "closed" /\ last_exit' = "ok"
            /\ fs'[output] = fs[tmp_output]
            /\ fs[tmp_output] = last_commit.store]_vars

\* a run was killed after it had committed entries to the temporary store,
\* and the destination still holds the store of an earlier build
C1_Witness ==
    /\ last_exit = "killed"
    /\ dest0.t = "store"
    /\ fs[output] = dest0
    /\ fs[tmp_output].t = "store"
    /\ fs[tmp_output].entries # <<>>
    /\ fs[tmp_output] # fs[output]

ReachedFor(key) == SelectSeq(reached, LAMBDA r : r.key = key)
AttemptsFor(key) == SelectSeq(attempts, LAMBDA k : k = key)

\* C2: when two or more rows of one build resolve to the same
\* (entry_id, derived subentry_id) and reach the write step, exactly one
\* exfor_entries row exists for the pair, it is the first row's, the
\* exfor_points rows of the pair are the points extracted for the first
\* row, and the insert was attempted once.
C2_FirstWriteWins ==
    \A key \in {r.key : r \in Range(reached)} :
        LET first == ReachedFor(key)[1]
        IN  Len(ReachedFor(key)) >= 2 =>
              /\ Len(AttemptsFor(key)) = 1
              /\ first.wrote
              /\ \A st \in {x \in {db} : x.t = "store"} \cup
                           {x \in {fs[output]} : last_exit = "ok"} :
                    /\ Len(EntriesOf(st, key)) = 1
                    /\ EntriesOf(st, key)[1].quantity = first.row.quantity
                    /\ EntriesOf(st, key)[1].reaction = first.row.reaction
                    /\ EntriesOf(st, key)[1].projectile = ProjectileOf(first.row.projectile)
                    /\ PointsOf(st, key) = PointRows(key, first.points)

\* two rows reached the write step for one pair with different points, and
\* the build went on to publish
C2_Witness ==
    /\ last_exit = "ok"
    /\ \E key \in {r.key : r \in Range(reached)} :
          /\ Len(ReachedFor(key)) = 2
          /\ ReachedFor(key)[1].points # ReachedFor(key)[2].points
          /\ Len(EntriesOf(fs[output], key)) = 1

RECURSIVE Concat(_)
Concat(seqs) == IF seqs = <<>> THEN <<>> ELSE Head(seqs) \o Concat(Tail(seqs))

Wrote == SelectSeq(reached, LAMBDA r : r.wrote)

\* C3: the store a successful build publishes holds exactly the entries and
\* points that build inserted, nothing of an earlier run, and a temporary
\* file left by an interrupted run does not make a later build fail.
C3_WholesaleRebuild ==
    /\ last_exit # "error"
    /\ last_exit = "ok" =>
          /\ [i \in 1..Len(fs[output].entries) |-> KeyOf(fs[output].entries[i])]
                = [i \in 1..Len(Wrote) |-> Wrote[i].key]
          /\ fs[output].points
                = Concat([i \in 1..Len(Wrote) |-> PointRows(Wrote[i].key, Wrote[i].points)])

Count(log, outcome) == Len(SelectSeq(log, LAMBDA o : o.outcome = outcome))
RECURSIVE SumPoints(_)
SumPoints(log) == IF log = <<>> THEN 0 ELSE Head(log).points + SumPoints(Tail(log))
\* what the temporary path held when the run connected to it
Leftover == IF tmp0.t = "store" THEN tmp0 ELSE EmptyStore
Flushed == Concat([i \in 1..Len(flushes) |-> flushes[i].rows])

\* C4: no per-record failure aborts the build and every row handed to a
\* flush has exactly one outcome: its entry is missing or fails to load
\* (one counter incremented once for the whole entry, nothing written), or
\* the row increments one of the four skip counters, or is skipped as
\* already written, or inserts one entry and its points; the counters count
\* these outcomes and a skipped row writes nothing.
C4_SkipAndCount ==
    /\ last_exit # "error"
    /\ [i \in 1..Len(outcomes) |-> outcomes[i].row] = Flushed
    /\ \A i \in 1..Len(outcomes) :
          outcomes[i].outcome \in
              {"missing_entries", "entry_load_errors", "skipped_non_nuclide_or_quantity",
               "skipped_projectile", "missing_dataset", "empty_points", "already_written",
               "inserted"}
    /\ stats.missing_entries =
          Cardinality({i \in 1..Len(flushes) : Retrieve(flushes[i].entry).t = "None"})
    /\ stats.entry_load_errors =
          Cardinality({i \in 1..Len(flushes) : Retrieve(flushes[i].entry).t = "raise"})
    /\ \A i \in 1..Len(outcomes) :
          outcomes[i].outcome \in {"missing_entries", "entry_load_errors"}
              <=> Retrieve(outcomes[i].row.entry).t # "record"
    /\ \A c \in {"skipped_non_nuclide_or_quantity", "skipped_projectile", "missing_dataset",
                 "empty_points"} : stats[c] = Count(outcomes, c)
    /\ stats.entries_inserted = Count(outcomes, "inserted")
    /\ stats.points_inserted = SumPoints(outcomes)
    /\ db.t = "store" =>
          /\ Len(db.entries) = Len(Leftover.entries) + Count(outcomes, "inserted")
          /\ Len(db.points) = Len(Leftover.points) + SumPoints(outcomes)

\* C9: every row read is handed to exactly one flush, in input order; each
\* flush gets a non-empty maximal run of consecutive rows of its entry; the
\* loader is called once per flush and once per distinct entry; after the
\* last row the pending group is flushed; an empty input loads nothing and
\* inserts nothing.
C9_GroupAndFlush ==
    /\ \A i \in 1..Len(flushes) :
          /\ flushes[i].rows # <<>>
          /\ \A k \in 1..Len(flushes[i].rows) : flushes[i].rows[k].entry = flushes[i].entry
          /\ i > 1 => flushes[i - 1].entry # flushes[i].entry
    /\ loads = [i \in 1..Len(flushes) |-> flushes[i].entry]
    /\ \A i, j \in 1..Len(loads) : loads[i] = loads[j] => i = j
    /\ pc = "loop" =>
          /\ Flushed \o entry_rows = SubSeq(index_rows, 1, row_index)
          /\ \A k \in 1..Len(entry_rows) : entry_rows[k].entry = current_entry.s
          /\ (flushes # <<>> /\ entry_rows # <<>>) =>
                flushes[Len(flushes)].entry # current_entry.s
    /\ pc \in {"flushed", "committed", "closed"} =>
          /\ Flushed = index_rows
          /\ Len(loads) = Cardinality({index_rows[k].entry : k \in 1..Len(index_rows)})
          /\ index_rows = <<>> => (loads = <<>> /\ attempts = <<>>)

\* a build over three index rows has finished its loop after flushing two
\* groups, one of them of two rows
C9_Witness ==
    /\ pc = "flushed"
    /\ Len(flushes) = 2
    /\ \E i \in 1..2 : Len(flushes[i].rows) = 2
    /\ Len(index_rows) = 3

\* C10: at every commit every exfor_points row refers to a row of
\* exfor_entries, every exfor_entries row has a point, every entry written
\* by the build has all its extracted points, and entries_inserted and
\* points_inserted are the numbers of rows of the two tables.
C10_CommitInvariant ==
    last_commit # None =>
        LET st == last_commit.store
        IN  /\ \A k \in 1..Len(st.points) : HasKey(st, KeyOf(st.points[k]))
            /\ \A k \in 1..Len(st.entries) : PointsOf(st, KeyOf(st.entries[k])) # <<>>
            /\ \A r \in Range(Wrote) :
                  HasKey(st, r.key) => PointsOf(st, r.key) = PointRows(r.key, r.points)
            /\ last_commit.stats.entries_inserted = Len(st.entries)
            /\ last_commit.stats.points_inserted = Len(st.points)

====
